---- MODULE Spec2Model ----
(***************************************************************************)
(* The metrics pipeline of FB_Hourly_Analysis.py: revenue CSV files and a  *)
(* spend sheet are cleaned, aggregated, merged and turned into hourly      *)
(* metrics.                                                                *)
(*                                                                         *)
(* Numbers.  Every decimal of the tables is an integer count of            *)
(* thousandths (0.004 is 4, so 0.01 is 10).  A quotient is an exact        *)
(* fraction [n, d] in lowest terms with d > 0; [n |-> 0, d |-> 0] is the   *)
(* outcome of a division by zero.  A cell of the spend sheet is a record   *)
(* [isna, v]: isna marks pandas' NaN.                                      *)
(* Text.  A label is a sequence of one-character strings, so that the      *)
(* regular expressions of the cleaning step are computed, not assumed.     *)
(***************************************************************************)
EXTENDS Integers, Sequences, FiniteSets, TLC

VARIABLES pc, error, revenue_files, spend_data, revenue_data, spend_cleaned,
          revenue_filtered, merged_data

vars == <<pc, error, revenue_files, spend_data, revenue_data, spend_cleaned,
          revenue_filtered, merged_data>>

(***************************************************************************)
(* Bounds of the model.                                                    *)
(***************************************************************************)
\* The revenue files of one upload.
MaxFiles == 2

\* The rows of the spend sheet.
MaxSpendRows == 2

(***************************************************************************)
(* Cells, text and the two regular expressions (lines 25-26).              *)
(***************************************************************************)
NaN == [isna |-> TRUE, v |-> 0]

Num(x) == [isna |-> FALSE, v |-> x]

Digits == <<"0", "1", "2", "3", "4", "5", "6", "7", "8", "9">>

IsDigit(ch) == \E k \in 1..Len(Digits) : Digits[k] = ch

DigitVal(ch) == (CHOOSE k \in 1..Len(Digits) : Digits[k] = ch) - 1

RECURSIVE DigitRunEnd(_, _)
\* One past the end of the maximal run of digits of s that starts at i (\d+ is greedy).
DigitRunEnd(s, i) ==
    IF i <= Len(s) /\ IsDigit(s[i]) THEN DigitRunEnd(s, i + 1) ELSE i

RECURSIVE ParseInt(_, _, _)
\* The decimal value of s[i..j-1].
ParseInt(s, i, j) ==
    IF j <= i THEN 0 ELSE 10 * ParseInt(s, i, j - 1) + DigitVal(s[j - 1])

\* r'\((\d+)\)' matches at i: "(" , one or more digits, ")".
MatchesCampidAt(s, i) ==
    /\ s[i] = "("
    /\ LET e == DigitRunEnd(s, i + 1) IN
          e > i + 1 /\ e <= Len(s) /\ s[e] = ")"

\* r'(\d+):' matches at i: one or more digits, ":".
MatchesHourAt(s, i) ==
    /\ IsDigit(s[i])
    /\ LET e == DigitRunEnd(s, i) IN e <= Len(s) /\ s[e] = ":"

\* str.extract: the group of the leftmost match, NaN when nothing matches.
ExtractCampid(s) ==
    IF \E i \in 1..Len(s) : MatchesCampidAt(s, i)
    THEN LET i == CHOOSE k \in 1..Len(s) :
                      MatchesCampidAt(s, k) /\ \A m \in 1..(k - 1) : ~MatchesCampidAt(s, m)
         IN Num(ParseInt(s, i + 1, DigitRunEnd(s, i + 1)))
    ELSE NaN

ExtractHour(s) ==
    IF \E i \in 1..Len(s) : MatchesHourAt(s, i)
    THEN LET i == CHOOSE k \in 1..Len(s) :
                      MatchesHourAt(s, k) /\ \A m \in 1..(k - 1) : ~MatchesHourAt(s, m)
         IN Num(ParseInt(s, i, DigitRunEnd(s, i)))
    ELSE NaN

(***************************************************************************)
(* Sequence helpers.                                                       *)
(***************************************************************************)
RECURSIVE Concat(_)
\* pd.concat(list, ignore_index=True): the tables one after the other.
Concat(tables) ==
    IF tables = <<>> THEN <<>> ELSE Head(tables) \o Concat(Tail(tables))

RECURSIVE SumOver(_, _, _)
\* The 'sum' aggregation: the column added up over the rows of the key.
SumOver(rows, key, column) ==
    IF rows = <<>> THEN 0
    ELSE (IF <<Head(rows).campid, Head(rows).hour>> = key THEN Head(rows)[column] ELSE 0)
         + SumOver(Tail(rows), key, column)

KeyLess(a, b) == a[1] < b[1] \/ (a[1] = b[1] /\ a[2] < b[2])

RECURSIVE SortKeys(_)
SortKeys(K) ==
    IF K = {} THEN <<>>
    ELSE LET m == CHOOSE x \in K : \A y \in K : y = x \/ KeyLess(x, y)
         IN <<m>> \o SortKeys(K \ {m})

RECURSIVE FirstSeenKeys(_, _)
\* The distinct keys in order of first appearance (what sort=False would give).
FirstSeenKeys(rows, seen) ==
    IF rows = <<>> THEN <<>>
    ELSE LET k == <<Head(rows).campid, Head(rows).hour>> IN
         IF k \in seen THEN FirstSeenKeys(Tail(rows), seen)
         ELSE <<k>> \o FirstSeenKeys(Tail(rows), seen \cup {k})

GroupKeysUnsorted(rows) == FirstSeenKeys(rows, {})

\* groupby(['campid', 'hour']) with the default sort=True: the group keys ascending.
GroupKeys(rows) == SortKeys({<<rows[i].campid, rows[i].hour>> : i \in 1..Len(rows)})

(***************************************************************************)
(* Cleaning of the spend sheet (lines 25-30).                              *)
(***************************************************************************)
\* Lines 25-26: the two extracted columns are added to spend_data.
WithLabels(sheet) ==
    [i \in 1..Len(sheet) |->
        [ad_set_name |-> sheet[i].ad_set_name,
         time_of_day |-> sheet[i].time_of_day,
         amount_spent |-> sheet[i].amount_spent,
         results |-> sheet[i].results,
         campid |-> ExtractCampid(sheet[i].ad_set_name),
         hour |-> ExtractHour(sheet[i].time_of_day)]]

\* Line 26: .astype(int) raises on a column that holds a NaN.
HourCastRaises(sheet) ==
    \E i \in 1..Len(sheet) : ExtractHour(sheet[i].time_of_day).isna

\* Line 29: dropna() over the four selected columns.
HasNa(row) == row.campid.isna \/ row.hour.isna \/ row.amount_spent.isna \/ row.results.isna

KeepsRow(row) == ~HasNa(row)

\* Lines 27-30: select, rename, dropna, campid to int.
CleanRow(row) ==
    [campid |-> row.campid.v, hour |-> row.hour.v,
     hourly_spend |-> row.amount_spent.v, hourly_results |-> row.results.v]

RECURSIVE CleanRows(_)
CleanRows(sheet) ==
    IF sheet = <<>> THEN <<>>
    ELSE (IF KeepsRow(Head(sheet)) THEN <<CleanRow(Head(sheet))>> ELSE <<>>)
         \o CleanRows(Tail(sheet))

(***************************************************************************)
(* Aggregation (lines 33-46) and the two merges (lines 49-59).             *)
(***************************************************************************)
MatchingCampaigns(cleaned) == {cleaned[i].campid : i \in 1..Len(cleaned)}

RECURSIVE FilterRevenue(_, _)
FilterRevenue(rows, campaigns) ==
    IF rows = <<>> THEN <<>>
    ELSE (IF Head(rows).campid \in campaigns THEN <<Head(rows)>> ELSE <<>>)
         \o FilterRevenue(Tail(rows), campaigns)

AggregateRevenue(rows) ==
    LET keys == GroupKeys(rows) IN
    [i \in 1..Len(keys) |->
        [campid |-> keys[i][1], hour |-> keys[i][2],
         estimated_earnings |-> SumOver(rows, keys[i], "estimated_earnings"),
         total_clicks |-> SumOver(rows, keys[i], "clicks")]]

AggregateSpend(rows) ==
    LET keys == GroupKeys(rows) IN
    [i \in 1..Len(keys) |->
        [campid |-> keys[i][1], hour |-> keys[i][2],
         hourly_spend |-> SumOver(rows, keys[i], "hourly_spend"),
         hourly_results |-> SumOver(rows, keys[i], "hourly_results")]]

RECURSIVE MatchesOf(_, _)
\* The rows of the right table whose (campid, hour) is that of the left row, in order.
MatchesOf(l, right) ==
    IF right = <<>> THEN <<>>
    ELSE (IF Head(right).campid = l.campid /\ Head(right).hour = l.hour
          THEN <<[campid |-> l.campid, hour |-> l.hour,
                  estimated_earnings |-> l.estimated_earnings,
                  total_clicks |-> l.total_clicks,
                  hourly_spend |-> Head(right).hourly_spend,
                  hourly_results |-> Head(right).hourly_results]>>
          ELSE <<>>)
         \o MatchesOf(l, Tail(right))

RECURSIVE InnerMerge(_, _)
\* pd.merge(how='inner'): the order of the left keys is kept (the keys of both tables
\* are unique after the aggregation).
InnerMerge(left, right) ==
    IF left = <<>> THEN <<>>
    ELSE MatchesOf(Head(left), right) \o InnerMerge(Tail(left), right)

RECURSIVE DropDuplicates(_, _)
\* drop_duplicates() keeps the first of the rows that are equal in every column.
DropDuplicates(rows, seen) ==
    IF rows = <<>> THEN <<>>
    ELSE IF Head(rows) \in seen THEN DropDuplicates(Tail(rows), seen)
         ELSE <<Head(rows)>> \o DropDuplicates(Tail(rows), seen \cup {Head(rows)})

\* Lines 57-58: the columns campid and 'Ad set name' of spend_data, duplicates dropped.
CampaignNameMapping(sheet) ==
    DropDuplicates([i \in 1..Len(sheet) |->
                       [campid |-> sheet[i].campid,
                        campaign_name |-> sheet[i].ad_set_name]], {})

WithName(l, name) ==
    [campid |-> l.campid, hour |-> l.hour,
     estimated_earnings |-> l.estimated_earnings, total_clicks |-> l.total_clicks,
     hourly_spend |-> l.hourly_spend, hourly_results |-> l.hourly_results,
     campaign_name |-> name]

RECURSIVE NamesOf(_, _)
NamesOf(l, mapping) ==
    IF mapping = <<>> THEN <<>>
    ELSE (IF ~Head(mapping).campid.isna /\ Head(mapping).campid.v = l.campid
          THEN <<WithName(l, Head(mapping).campaign_name)>> ELSE <<>>)
         \o NamesOf(l, Tail(mapping))

RECURSIVE LeftMerge(_, _)
\* pd.merge(how='left') on campid: one row per match, a row without a match is kept
\* with a missing name.
LeftMerge(left, mapping) ==
    IF left = <<>> THEN <<>>
    ELSE (IF NamesOf(Head(left), mapping) = <<>>
          THEN <<WithName(Head(left), <<>>)>>
          ELSE NamesOf(Head(left), mapping))
         \o LeftMerge(Tail(left), mapping)

(***************************************************************************)
(* Derived metrics (lines 62-82) and rounding (lines 84-87).               *)
(***************************************************************************)
Abs(x) == IF x < 0 THEN -x ELSE x

RECURSIVE GCD(_, _)
GCD(a, b) == IF b = 0 THEN a ELSE GCD(b, a % b)

\* The exact quotient n / d, d > 0, in lowest terms.
Frac(n, d) == LET g == GCD(Abs(n), d) IN [n |-> n \div g, d |-> d \div g]

Zero == [n |-> 0, d |-> 1]

ZeroDivision == [n |-> 0, d |-> 0]

\* The operator / of the lambdas: a zero divisor raises.
Divide(n, d) ==
    IF d = 0 THEN ZeroDivision
    ELSE IF d > 0 THEN Frac(n, d) ELSE Frac(-n, -d)

\* The last row before i of the same campaign (0 when i is the campaign's first row):
\* the row groupby('campid').diff() subtracts.
PrevIndex(rows, i) ==
    IF \E j \in 1..(i - 1) : rows[j].campid = rows[i].campid
    THEN CHOOSE j \in 1..(i - 1) :
            /\ rows[j].campid = rows[i].campid
            /\ \A k \in (j + 1)..(i - 1) : rows[k].campid # rows[i].campid
    ELSE 0

\* The cumulative value taken as it is, no row subtracted.
NoDiff(rows, i, column) == Num(rows[i][column])

\* groupby('campid')[column].diff(): NaN on the first row of a campaign.
GroupDiff(rows, i, column) ==
    IF PrevIndex(rows, i) = 0 THEN NaN
    ELSE Num(rows[i][column] - rows[PrevIndex(rows, i)][column])

FillNa(cell, value) == IF cell.isna THEN value ELSE cell.v

\* Lines 62-63.
HourlyDelta(rows, i, column) == FillNa(GroupDiff(rows, i, column), rows[i][column])

\* The guard admitting a zero divisor.
HourlyRpcUnguarded(revenue, clicks) ==
    IF clicks >= 0 THEN Divide(revenue, clicks) ELSE Zero

\* Lines 66-68.
HourlyRpc(revenue, clicks) ==
    IF clicks > 0 THEN Divide(revenue, clicks) ELSE Zero

\* Lines 71-73.
HourlyCpr(spend, results) ==
    IF results > 0 THEN Divide(spend, results) ELSE Zero

\* Lines 77-79.
Roi(profit, spend) ==
    IF spend > 0 THEN Divide(profit * 100, spend) ELSE Zero

\* Half-to-even rounding of n / d (d > 0) to an integer, as numpy's round.
RoundHalfEven(n, d) ==
    LET q == n \div d
        r == n % d
    IN IF 2 * r < d THEN q
       ELSE IF 2 * r > d THEN q + 1
       ELSE IF q % 2 = 0 THEN q ELSE q + 1

\* round(2) of a decimal held in thousandths.
Round2(x) == 10 * RoundHalfEven(x, 10)

\* round(2) of a quotient.
Round2Frac(f) == Frac(RoundHalfEven(100 * f.n, f.d), 100)

\* The label decided after rounding.
ProfitLossOfRounded(x) ==
    IF Round2(x) > 0 THEN "Profit" ELSE IF Round2(x) < 0 THEN "Loss" ELSE "Break-Even"

\* Lines 80-82.
ProfitLoss(x) ==
    IF x > 0 THEN "Profit" ELSE IF x < 0 THEN "Loss" ELSE "Break-Even"

DeriveRow(rows, i) ==
    LET r == rows[i]
        revenue == HourlyDelta(rows, i, "estimated_earnings")
        clicks == HourlyDelta(rows, i, "total_clicks")
        profit == revenue - r.hourly_spend
    IN [campid |-> r.campid, campaign_name |-> r.campaign_name, hour |-> r.hour,
        hourly_spend |-> r.hourly_spend, hourly_results |-> r.hourly_results,
        estimated_earnings |-> r.estimated_earnings, total_clicks |-> r.total_clicks,
        hourly_revenue |-> revenue, hourly_clicks |-> clicks,
        hourly_cpr |-> HourlyCpr(r.hourly_spend, r.hourly_results),
        hourly_rpc |-> HourlyRpc(revenue, clicks),
        profit |-> profit, roi |-> Roi(profit, r.hourly_spend),
        profit_loss |-> ProfitLoss(profit)]

DeriveRows(rows) == [i \in 1..Len(rows) |-> DeriveRow(rows, i)]

DivisionRaises(rows) ==
    \E i \in 1..Len(rows) :
        ZeroDivision \in {rows[i].hourly_rpc, rows[i].hourly_cpr, rows[i].roi}

\* Lines 85-87: the ten numeric columns rounded; the label is left as it is.
RoundRow(r) ==
    [campid |-> r.campid, campaign_name |-> r.campaign_name, hour |-> r.hour,
     hourly_spend |-> Round2(r.hourly_spend), hourly_results |-> Round2(r.hourly_results),
     estimated_earnings |-> Round2(r.estimated_earnings),
     total_clicks |-> Round2(r.total_clicks),
     hourly_revenue |-> Round2(r.hourly_revenue), hourly_clicks |-> Round2(r.hourly_clicks),
     hourly_cpr |-> Round2Frac(r.hourly_cpr), hourly_rpc |-> Round2Frac(r.hourly_rpc),
     profit |-> Round2(r.profit), roi |-> Round2Frac(r.roi),
     profit_loss |-> r.profit_loss]

RoundRows(rows) == [i \in 1..Len(rows) |-> RoundRow(rows[i])]

(***************************************************************************)
(* The uploads.                                                            *)
(***************************************************************************)
RevenueRows(ids, hours, values) ==
    {[campid |-> c, hour |-> h, estimated_earnings |-> v[1], clicks |-> v[2]] :
        c \in ids, h \in hours, v \in values}

SpendRows(names, times, values) ==
    {[ad_set_name |-> a, time_of_day |-> t, amount_spent |-> v[1], results |-> v[2]] :
        a \in names, t \in times, v \in values}

SeqsUpTo(S, lo, hi) == UNION {[1..n -> S] : n \in lo..hi}

\* Every uploaded table holds data: a revenue file is modelled with one row (the rows
\* of the files reach the pipeline through Concat, whichever file they came in), the
\* spend sheet with at least one.
RevenueFiles(rows) == {<<r>> : r \in rows}

\* "A (1)" and "B (1)" embed the same campaign id, "D (x)" embeds none.
NameA1 == <<"A", " ", "(", "1", ")">>

NameB1 == <<"B", " ", "(", "1", ")">>

NameC2 == <<"(", "2", ")", " ", "C">>

NameNoId == <<"D", " ", "(", "x", ")">>

\* "0:00" and "01:00" are hours 0 and 1, "1 pm" holds no hour.
Time0 == <<"0", ":", "0", "0">>

Time1 == <<"0", "1", ":", "0", "0">>

TimeNoHour == <<"1", " ", "p", "m">>

\* Uploads that vary the labels: two campaigns, two ad sets that share a campaign id,
\* a name without an id, two hours, a time without an hour, in every upload order.
LabelUploads ==
    [revenue : SeqsUpTo(RevenueFiles(RevenueRows({1, 2}, {0, 1}, {<<10, 5>>})), 1, MaxFiles),
     spend : SeqsUpTo(SpendRows({NameA1, NameB1, NameC2, NameNoId},
                                {Time0, Time1, TimeNoHour},
                                {<<Num(6), Num(2)>>}), 1, MaxSpendRows)]

\* Uploads that vary the values: one campaign, cumulative counters that rise, stay or
\* fall, zero spend and results, an empty Results cell (read as NaN).
ValueUploads ==
    [revenue : SeqsUpTo(RevenueFiles(RevenueRows({1}, {0, 1},
                                     {<<0, 0>>, <<4, 3>>, <<10, 5>>})), 1, MaxFiles),
     spend : SeqsUpTo(SpendRows({NameA1}, {Time0, Time1},
                                {<<Num(0), Num(0)>>, <<Num(6), Num(2)>>, <<Num(6), NaN>>}),
                      1, MaxSpendRows)]

\* The end-to-end scenario: one revenue file, campaign 12345 at hours 10 and 11.
ScenarioRevenue ==
    <<<<[campid |-> 12345, hour |-> 10, estimated_earnings |-> 500000, clicks |-> 10000],
        [campid |-> 12345, hour |-> 11, estimated_earnings |-> 800000, clicks |-> 25000]>>>>

ScenarioName == <<"S", "e", "t", " ", "(", "1", "2", "3", "4", "5", ")">>

ScenarioSpend ==
    <<[ad_set_name |-> ScenarioName, time_of_day |-> <<"1", "0", ":", "0", "0">>,
       amount_spent |-> Num(50000), results |-> Num(5000)],
      [ad_set_name |-> ScenarioName, time_of_day |-> <<"1", "1", ":", "0", "0">>,
       amount_spent |-> Num(80000), results |-> Num(8000)]>>

(***************************************************************************)
(* The run.  Line 16 lets it start once at least one revenue file and the  *)
(* spend file are uploaded.                                                *)
(***************************************************************************)
Init ==
    /\ \/ \E u \in LabelUploads \cup ValueUploads :
             revenue_files = u.revenue /\ spend_data = u.spend
       \/ revenue_files = ScenarioRevenue /\ spend_data = ScenarioSpend
    /\ pc = "load"
    /\ error = "none"
    /\ revenue_data = <<>>
    /\ spend_cleaned = <<>>
    /\ revenue_filtered = <<>>
    /\ merged_data = <<>>

\* Lines 18-22.
Load ==
    /\ pc = "load"
    /\ revenue_data' = Concat(revenue_files)
    /\ pc' = "clean"
    /\ UNCHANGED <<error, revenue_files, spend_data, spend_cleaned, revenue_filtered,
                   merged_data>>

\* Lines 25-30.
Clean ==
    /\ pc = "clean"
    /\ spend_data' = WithLabels(spend_data)
    /\ IF HourCastRaises(spend_data)
       THEN /\ pc' = "fault"
            /\ error' = "ValueError"
            /\ UNCHANGED spend_cleaned
       ELSE /\ pc' = "aggregate"
            /\ spend_cleaned' = CleanRows(WithLabels(spend_data))
            /\ UNCHANGED error
    /\ UNCHANGED <<revenue_files, revenue_data, revenue_filtered, merged_data>>

\* Lines 33-46.
Aggregate ==
    /\ pc = "aggregate"
    /\ revenue_filtered' =
          AggregateRevenue(FilterRevenue(revenue_data, MatchingCampaigns(spend_cleaned)))
    /\ spend_cleaned' = AggregateSpend(spend_cleaned)
    /\ pc' = "merge"
    /\ UNCHANGED <<error, revenue_files, spend_data, revenue_data, merged_data>>

\* Lines 49-54.
Merge ==
    /\ pc = "merge"
    /\ merged_data' = InnerMerge(revenue_filtered, spend_cleaned)
    /\ pc' = "names"
    /\ UNCHANGED <<error, revenue_files, spend_data, revenue_data, spend_cleaned,
                   revenue_filtered>>

\* Lines 57-59.
AddNames ==
    /\ pc = "names"
    /\ merged_data' = LeftMerge(merged_data, CampaignNameMapping(spend_data))
    /\ pc' = "derive"
    /\ UNCHANGED <<error, revenue_files, spend_data, revenue_data, spend_cleaned,
                   revenue_filtered>>

\* Lines 62-82.  A lambda that divides by zero raises and ends the run.  On a merged
\* table without rows apply(axis=1) yields an empty column (pandas infers the reduction
\* from the scalar the lambda returns), so the run goes on with an empty table.
Derive ==
    /\ pc = "derive"
    /\ IF DivisionRaises(DeriveRows(merged_data))
       THEN /\ pc' = "fault"
            /\ error' = "ZeroDivisionError"
            /\ UNCHANGED merged_data
       ELSE /\ pc' = "round"
            /\ merged_data' = DeriveRows(merged_data)
            /\ UNCHANGED error
    /\ UNCHANGED <<revenue_files, spend_data, revenue_data, spend_cleaned,
                   revenue_filtered>>

\* Lines 85-94.
RoundOff ==
    /\ pc = "round"
    /\ merged_data' = RoundRows(merged_data)
    /\ pc' = "done"
    /\ UNCHANGED <<error, revenue_files, spend_data, revenue_data, spend_cleaned,
                   revenue_filtered>>

Next == Load \/ Clean \/ Aggregate \/ Merge \/ AddNames \/ Derive \/ RoundOff

Spec == Init /\ [][Next]_vars

(***************************************************************************)
(* Properties.  "Exact" values are those of the table after Derive and     *)
(* before RoundOff (pc = "round"); the report is the table at pc = "done". *)
(***************************************************************************)
Rows == 1..Len(merged_data)

Sheet == 1..Len(spend_data)

\* The spend records whose two labels yield (c, h).
SpendOf(c, h) ==
    {k \in Sheet : /\ ExtractCampid(spend_data[k].ad_set_name) = Num(c)
                   /\ ExtractHour(spend_data[k].time_of_day) = Num(h)}

RevenueOf(c, h) ==
    {k \in 1..Len(revenue_data) : revenue_data[k].campid = c /\ revenue_data[k].hour = h}

RECURSIVE SumSet(_, _)
SumSet(S, f) ==
    IF S = {} THEN 0 ELSE LET k == CHOOSE x \in S : TRUE IN f[k] + SumSet(S \ {k}, f)

IsQuotient(f, n, d) == f.d > 0 /\ f.n * d = n * f.d

\* C1: no two rows of the report share the same (campaign_id, hour).
C1_UniqueCampaignHour ==
    pc = "done" =>
        \A i, j \in Rows :
            (merged_data[i].campid = merged_data[j].campid
             /\ merged_data[i].hour = merged_data[j].hour) => i = j

\* C2: a spend row whose name holds no "(digits)" or whose time holds no "digits:" is
\* dropped silently: the run never faults, and the cleaned rows are those of the
\* well-formed, fully filled records, in order.
C2_MalformedRowsDroppedSilently ==
    /\ pc # "fault"
    /\ pc = "aggregate" =>
          Len(spend_cleaned) =
              Cardinality({k \in Sheet : /\ ~ExtractCampid(spend_data[k].ad_set_name).isna
                                         /\ ~ExtractHour(spend_data[k].time_of_day).isna
                                         /\ ~spend_data[k].amount_spent.isna
                                         /\ ~spend_data[k].results.isna})

\* C3: the report has a row for (c, h) iff some revenue record has (c, h) and some
\* spend record's labels yield (c, h).
C3_InnerJoin ==
    pc \in {"done", "fault"} =>
        \A c \in {1, 2, 12345}, h \in {0, 1, 10, 11} :
            (\E i \in Rows : merged_data[i].campid = c /\ merged_data[i].hour = h)
            <=> (RevenueOf(c, h) # {} /\ SpendOf(c, h) # {})

\* C4: every report row (c, h) carries the sums of amount spent and results over all
\* spend records that yield (c, h), and the sums of earnings and clicks over all revenue
\* records of (c, h), each rounded to two decimals.
C4_SumsOverAllRecords ==
    pc = "done" =>
        \A i \in Rows :
            LET c == merged_data[i].campid
                h == merged_data[i].hour
            IN /\ merged_data[i].hourly_spend =
                     Round2(SumSet(SpendOf(c, h), [k \in Sheet |-> spend_data[k].amount_spent.v]))
               /\ merged_data[i].hourly_results =
                     Round2(SumSet(SpendOf(c, h), [k \in Sheet |-> spend_data[k].results.v]))
               /\ merged_data[i].estimated_earnings =
                     Round2(SumSet(RevenueOf(c, h),
                                   [k \in 1..Len(revenue_data) |->
                                       revenue_data[k].estimated_earnings]))
               /\ merged_data[i].total_clicks =
                     Round2(SumSet(RevenueOf(c, h),
                                   [k \in 1..Len(revenue_data) |-> revenue_data[k].clicks]))

\* C5: the exact hourly_revenue and hourly_clicks of a row are its cumulative values
\* when the campaign has no row of an earlier hour, and otherwise its cumulative values
\* minus those of the campaign's row of the nearest earlier hour.
C5_DiffAgainstPrecedingHour ==
    pc = "round" =>
        \A i \in Rows :
            LET r == merged_data[i]
                earlier == {j \in Rows : /\ merged_data[j].campid = r.campid
                                         /\ merged_data[j].hour < r.hour}
                nearest == {j \in earlier :
                               \A k \in earlier : merged_data[k].hour <= merged_data[j].hour}
            IN IF earlier = {}
               THEN /\ r.hourly_revenue = r.estimated_earnings
                    /\ r.hourly_clicks = r.total_clicks
               ELSE \A j \in nearest :
                       /\ r.hourly_revenue =
                             r.estimated_earnings - merged_data[j].estimated_earnings
                       /\ r.hourly_clicks = r.total_clicks - merged_data[j].total_clicks

\* C6: the label of a row is decided from its exact profit (hourly_revenue minus
\* hourly_spend): "Profit" above 0, "Loss" below 0, "Break-Even" at exactly 0; rounding
\* comes after: it replaces the profit by its two-decimal value and keeps the label.
C6_LabelFromExactProfit ==
    /\ [](pc = "round" =>
            \A i \in Rows :
                LET r == merged_data[i] IN
                /\ r.profit = r.hourly_revenue - r.hourly_spend
                /\ r.profit > 0 => r.profit_loss = "Profit"
                /\ r.profit < 0 => r.profit_loss = "Loss"
                /\ r.profit = 0 => r.profit_loss = "Break-Even")
    /\ [][pc = "round" =>
            /\ Len(merged_data') = Len(merged_data)
            /\ \A i \in Rows :
                  /\ merged_data'[i].profit_loss = merged_data[i].profit_loss
                  /\ merged_data'[i].profit = Round2(merged_data[i].profit)]_vars

\* An exact profit of 0.004 was labelled "Profit" and is displayed as 0.00.
C6_Witness ==
    /\ pc = "done"
    /\ \E i \in Rows :
          /\ merged_data[i].profit = 0
          /\ merged_data[i].profit_loss = "Profit"
          /\ merged_data[i].hourly_spend = 10
          /\ merged_data[i].estimated_earnings = 10

\* C7: on the exact values, hourly_rpc is 0 when hourly_clicks <= 0, hourly_cpr is 0
\* when hourly_results <= 0, roi is 0 when hourly_spend <= 0, and otherwise they are the
\* quotients revenue/clicks, spend/results and profit*100/spend; the derivation never
\* divides by zero.
C7_GuardedQuotients ==
    /\ error # "ZeroDivisionError"
    /\ pc = "round" =>
          \A i \in Rows :
              LET r == merged_data[i] IN
              /\ IF r.hourly_clicks <= 0 THEN r.hourly_rpc = Zero
                 ELSE IsQuotient(r.hourly_rpc, r.hourly_revenue, r.hourly_clicks)
              /\ IF r.hourly_results <= 0 THEN r.hourly_cpr = Zero
                 ELSE IsQuotient(r.hourly_cpr, r.hourly_spend, r.hourly_results)
              /\ IF r.hourly_spend <= 0 THEN r.roi = Zero
                 ELSE IsQuotient(r.roi, r.profit * 100, r.hourly_spend)

\* A row with a negative click delta, no spend and no result, beside a row whose three
\* quotients are taken.
C7_Witness ==
    /\ pc = "round"
    /\ \E i, j \in Rows :
          /\ merged_data[i].hourly_clicks < 0
          /\ merged_data[i].hourly_results = 0
          /\ merged_data[i].hourly_spend = 0
          /\ merged_data[j].hourly_clicks > 0
          /\ merged_data[j].hourly_results > 0
          /\ merged_data[j].hourly_spend > 0
          /\ merged_data[j].hourly_rpc # Zero
          /\ merged_data[j].roi # Zero

\* C8: every report row of campaign c carries the ad-set name of the first spend record
\* whose name yields c.
C8_FirstAdSetName ==
    pc = "done" =>
        \A i \in Rows :
            \E k \in Sheet :
                /\ ExtractCampid(spend_data[k].ad_set_name) = Num(merged_data[i].campid)
                /\ \A m \in 1..(k - 1) :
                      ExtractCampid(spend_data[m].ad_set_name) # Num(merged_data[i].campid)
                /\ merged_data[i].campaign_name = spend_data[k].ad_set_name

ScenarioReport ==
    <<[campid |-> 12345, campaign_name |-> ScenarioName, hour |-> 10,
       hourly_spend |-> 50000, hourly_results |-> 5000,
       estimated_earnings |-> 500000, total_clicks |-> 10000,
       hourly_revenue |-> 500000, hourly_clicks |-> 10000,
       hourly_cpr |-> [n |-> 10, d |-> 1], hourly_rpc |-> [n |-> 50, d |-> 1],
       profit |-> 450000, roi |-> [n |-> 900, d |-> 1], profit_loss |-> "Profit"],
      [campid |-> 12345, campaign_name |-> ScenarioName, hour |-> 11,
       hourly_spend |-> 80000, hourly_results |-> 8000,
       estimated_earnings |-> 800000, total_clicks |-> 25000,
       hourly_revenue |-> 300000, hourly_clicks |-> 15000,
       hourly_cpr |-> [n |-> 10, d |-> 1], hourly_rpc |-> [n |-> 20, d |-> 1],
       profit |-> 220000, roi |-> [n |-> 275, d |-> 1], profit_loss |-> "Profit"]>>

\* C9: the end-to-end scenario ends without a fault, and its report is exactly the two
\* rows of hours 10 and 11.
C9_EndToEnd ==
    revenue_files = ScenarioRevenue =>
        /\ pc # "fault"
        /\ pc = "done" => merged_data = ScenarioReport

C9_Witness == revenue_files = ScenarioRevenue /\ pc = "done" /\ Len(merged_data) = 2

\* C10: when the differencing is applied (pc = "derive"), the rows of the merged table
\* are in ascending (campid, hour) order, and the row a diff subtracts never has a later
\* hour than the row itself.
C10_SortedBeforeDiff ==
    pc = "derive" =>
        /\ \A i \in Rows : \A j \in Rows :
              i < j => ~KeyLess(<<merged_data[j].campid, merged_data[j].hour>>,
                                <<merged_data[i].campid, merged_data[i].hour>>)
        /\ \A i \in Rows :
              PrevIndex(merged_data, i) # 0 =>
                  merged_data[PrevIndex(merged_data, i)].hour <= merged_data[i].hour

\* The revenue rows and the spend rows of one campaign were both uploaded with the
\* later hour first, and rows of both hours reach the differencing.
C10_Witness ==
    /\ pc = "derive"
    /\ Len(revenue_data) = 2
    /\ revenue_data[1].campid = revenue_data[2].campid
    /\ revenue_data[1].hour > revenue_data[2].hour
    /\ Len(spend_data) = 2
    /\ spend_data[1].hour.v > spend_data[2].hour.v
    /\ Len(merged_data) = 2
    /\ merged_data[1].campid = merged_data[2].campid
    /\ merged_data[1].hour # merged_data[2].hour

====
